---- MODULE Spec2Model ----
(***************************************************************************)
(* Payment session and order reconciliation core of the storefront:        *)
(* the Adyen webhook routes, the refund initiation and the order           *)
(* finalization, over the order, orderPayment (ledger), adyenSession and   *)
(* cartItem tables.  Every request is a process; every awaited storage or  *)
(* provider call is one atomic step, so requests interleave between their  *)
(* awaits exactly as the single-threaded event loop allows.                *)
(***************************************************************************)
EXTENDS Integers, Sequences, FiniteSets, TLC

VARIABLES
    order,          \* table Order: rows [id, userId, status, items]
    orderPayment,   \* table OrderPayment (the ledger): unique orderId, unique pspReference
    adyenSession,   \* table AdyenSession: rows [sessionId, orderId, userId]
    cartItem,       \* table CartItem: rows [userId, productId, quantity]
    reqs,           \* the request each worker is handling, with its locals
    refundCalls,    \* refundOrCancelPayment calls received by the provider
    started,        \* number of requests started
    faults,         \* number of storage / provider calls that raised
    race,           \* exploration: TRUE two workers overlap and no call raises,
                    \* FALSE one request at a time and calls may raise
    authorised,     \* history: per order, the pspReference of the first
                    \* AUTHORISATION/true notification stored in the ledger
    call,           \* a direct call of the session store, with its arguments
                    \* and its result
    checkout        \* the checkout of one cart: the clock, the session
                    \* requests built by the gateway, the totals of the order

vars == <<order, orderPayment, adyenSession, cartItem, reqs,
          refundCalls, started, faults, race, authorised, call, checkout>>

----------------------------------------------------------------------------
(* Bounds *)

MaxRequests == 3     \* requests handled one after the other
MaxFaults == 1       \* calls that raise among them
MaxRace == 2         \* requests handled by two overlapping workers

Procs == {"w1", "w2"}
Before(q, p) == q = "w1" /\ p = "w2"
OrderIds == {"o1", "o2"}
UserIds == {"u1", "u2"}

----------------------------------------------------------------------------
(* Order status values written by the code *)

PENDING == "PENDING"
SUCCESSFUL == "SUCCESSFUL"
FAILED == "FAILED"
REFUND_IN_PROGRESS == "REFUND IN PROGRESS"
REFUNDED == "REFUNDED"
CANCELLED == "CANCELLED"

AUTHORISATION == "AUTHORISATION"
CANCEL_OR_REFUND == "CANCEL_OR_REFUND"

\* A notification item (NotificationRequestItem).  action is
\* additionalData['modification.action'], "" when absent; value is
\* amount.value in minor units.
EventShapes ==
    { <<AUTHORISATION, "true", "">>, <<AUTHORISATION, "false", "">>,
      <<CANCEL_OR_REFUND, "true", "">>, <<CANCEL_OR_REFUND, "true", "refund">>,
      <<CANCEL_OR_REFUND, "true", "cancel">>, <<CANCEL_OR_REFUND, "false", "">>,
      <<"CAPTURE", "true", "">> }

\* The provider's references are unique per payment or modification: P1 and P2
\* belong to payments of order o1, P3 to order o2.
References == { <<"o1", "P1">>, <<"o1", "P2">>, <<"o2", "P3">> }

NotificationItems ==
    { [merchantReference |-> m[1], pspReference |-> m[2], eventCode |-> e[1],
       success |-> e[2], action |-> e[3], value |-> 5400] :
        m \in References, e \in EventShapes }

AuthItem(id, psp, success) ==
    [merchantReference |-> id, pspReference |-> psp, eventCode |-> AUTHORISATION,
     success |-> success, action |-> "", value |-> 5400]

\* Batches: every single item, and two batches of two items.
Batches ==
    { <<i>> : i \in NotificationItems } \cup
    { << [AuthItem("o1", "P1", "true") EXCEPT !.eventCode = "CAPTURE"],
         AuthItem("o1", "P1", "true") >>,
      << AuthItem("o2", "P3", "false"), AuthItem("o1", "P1", "false") >> }

NoPayment ==
    [orderId |-> "", pspReference |-> "", eventCode |-> "", success |-> FALSE,
     amount |-> 0]

\* Request bodies: not JSON, JSON without notificationItems, an empty
\* notificationItems array, or a batch.  hmac is what validateHMAC does on the
\* first item with the configured key.
\* hmacKey is whether process.env.ADYEN_HMAC_KEY is set when the request is
\* handled.
WebhookInputs ==
    [body : {"invalidJson", "noItems", "emptyItems"}, items : {<<>>},
     hmac : {"invalid"}, hmacKey : BOOLEAN]
    \cup [body : {"batch"}, items : Batches, hmac : {"valid", "invalid", "throws"},
          hmacKey : {TRUE}]
    \cup [body : {"batch"}, items : Batches, hmac : {"valid"}, hmacKey : {FALSE}]

IdleReq ==
    [kind |-> "idle", pc |-> "done", userId |-> "", orderId |-> "",
     body |-> "", items |-> <<>>, hmac |-> "", hmacKey |-> FALSE, idx |-> 0,
     existingPayment |-> FALSE, target |-> "", payment |-> NoPayment,
     cart |-> {}, resp |-> 0, pre |-> "", wrote |-> {}, threw |-> FALSE]

----------------------------------------------------------------------------
(* Storage: Prisma calls on the tables *)

\* db.order.findUnique({ where: { id } }) as a set of at most one row
OrderById(id) == { o \in order : o.id = id }

\* db.orderPayment.findUnique({ where: { orderId } })
PaymentByOrderId(id) == { r \in orderPayment : r.orderId = id }

\* db.orderPayment.findUnique({ where: { pspReference } })
PaymentByPsp(psp) == { r \in orderPayment : r.pspReference = psp }

\* Outcomes of one awaited call: it returns, or (within the fault budget) raises
CallOutcomes == IF ~race /\ faults < MaxFaults THEN {TRUE, FALSE} ELSE {TRUE}

Raise(ok) == faults' = IF ok THEN faults ELSE faults + 1

----------------------------------------------------------------------------
\* The tables after the seed, one checkout by u1 (order o1 finalized, two
\* sessions of it still stored) and one checkout started by u2 for o2.
Orders0 ==
    { [id |-> "o1", userId |-> "u1", status |-> PENDING,
       items |-> { [productId |-> "a", quantity |-> 2] }] }

Sessions0 ==
    { [sessionId |-> "s1", orderId |-> "o1", userId |-> "u1",
       createdAt |-> 0, expiresAt |-> 1],
      [sessionId |-> "s2", orderId |-> "o1", userId |-> "u1",
       createdAt |-> 1, expiresAt |-> 2],
      [sessionId |-> "s3", orderId |-> "o2", userId |-> "u2",
       createdAt |-> 0, expiresAt |-> 1] }

Carts0 == { [userId |-> "u2", productId |-> "b", quantity |-> 1] }

\* The tables after the AUTHORISATION/true notification of o1 was processed
Orders1 == { [o EXCEPT !.status = SUCCESSFUL] : o \in Orders0 }

Payments1 ==
    { [orderId |-> "o1", pspReference |-> "P1", eventCode |-> AUTHORISATION,
       success |-> TRUE, amount |-> 54] }

Sessions1 == { x \in Sessions0 : x.orderId # "o1" }

\* No direct call of the session store in progress
\* No single-call operation of the session store has run
NoLast ==
    [op |-> "", orderId |-> "", userId |-> "", sessionId |-> "", result |-> "",
     raised |-> FALSE]

\* now is the clock (new Date()), puts whether a session was stored since the
\* cleanup was called, last the last single-call operation with its result
NoCall ==
    [pc |-> "idle", orderId |-> "", userId |-> "", keep |-> "",
     before |-> {}, result |-> "", now |-> 1, puts |-> FALSE, last |-> NoLast]

\* No checkout in progress
NoCheckout ==
    [cartItems |-> {}, now |-> 0, sessions |-> <<>>, order |-> <<>>,
     provider |-> <<>>]

InitCommon ==
    /\ cartItem = Carts0
    /\ reqs = [p \in Procs |-> IdleReq]
    /\ refundCalls = <<>>
    /\ started = 0
    /\ faults = 0
    /\ call = NoCall
    /\ checkout = NoCheckout

Init ==
    /\ InitCommon
    /\ race = FALSE
    /\ order = Orders0 /\ orderPayment = {} /\ adyenSession = Sessions0
    /\ authorised = [id \in OrderIds |-> ""]

InitRace ==
    /\ InitCommon
    /\ race = TRUE
    /\ \/ /\ order = Orders0 /\ orderPayment = {} /\ adyenSession = Sessions0
          /\ authorised = [id \in OrderIds |-> ""]
       \/ /\ order = Orders1 /\ orderPayment = Payments1 /\ adyenSession = Sessions1
          /\ authorised = [id \in OrderIds |->
                              IF id = "o1" THEN "P1" ELSE ""]

----------------------------------------------------------------------------
(* Helpers on a request record *)

Item(r) == r.items[1]

\* The response ends the request; its locals are dead from here on.  What is
\* kept is the request, the response, the order status and ledger row the
\* handler read (pre, payment), the tables it wrote and the provider it
\* called (wrote), and whether one of its calls raised (threw).
Respond(r, code) ==
    [r EXCEPT !.pc = "done", !.resp = code, !.idx = 0, !.existingPayment = FALSE,
              !.target = "", !.cart = {}]

\* The status of the order the handler found ("" when it found none)
StatusOf(found) == IF found = {} THEN "" ELSE (CHOOSE o \in found : TRUE).status

Goto(r, label) == [r EXCEPT !.pc = label]

Wrote(r, table) == [r EXCEPT !.wrote = @ \cup {table}]

Faulted(r) == [r EXCEPT !.threw = TRUE]

SetReq(p, r) == reqs' = [reqs EXCEPT ![p] = r]

\* Worker p takes request r; the records of requests that were answered
\* before are dropped.
Accept(p, r) ==
    reqs' = [q \in Procs |-> IF q = p THEN r
                             ELSE IF reqs[q].pc = "done" THEN IdleReq ELSE reqs[q]]

\* A new request is taken by the first worker that is not handling one.
CanStart(p) ==
    /\ reqs[p].pc = "done"
    /\ started < (IF race THEN MaxRace ELSE MaxRequests)
    /\ \A q \in Procs : Before(q, p) => race /\ reqs[q].pc # "done"

\* Faulty variant: the amount is stored in minor units
Amount_minorUnits(item) == item.value

\* amount?.value ? amount.value / 100 : 0  (minor units to major units)
Amount(item) == IF item.value # 0 THEN item.value \div 100 ELSE 0

\* The ledger row createOrderPayment writes for an item
PaymentRow(item) ==
    [orderId |-> item.merchantReference, pspReference |-> item.pspReference,
     eventCode |-> item.eventCode, success |-> (item.success = "true"),
     amount |-> Amount(item)]

\* Faulty variant: the failure branch does not test the event code
Dispatch_anyFailure(item) ==
    IF item.eventCode = CANCEL_OR_REFUND /\ item.success = "true" THEN "cr_find"
    ELSE IF item.eventCode = AUTHORISATION /\ item.success = "true" THEN "ps_find"
    ELSE IF item.success = "false" THEN "pf_find"
    ELSE "done"

\* The three dispatch tests of the webhook action after createOrderPayment
Dispatch(item) ==
    IF item.eventCode = CANCEL_OR_REFUND /\ item.success = "true" THEN "cr_find"
    ELSE IF item.eventCode = AUTHORISATION /\ item.success = "true" THEN "ps_find"
    ELSE IF item.eventCode = AUTHORISATION /\ item.success = "false" THEN "pf_find"
    ELSE "done"

\* Control after createOrderPayment returned (it never raises): dispatch, or
\* the final 202 when no handler applies.
AfterCreateOrderPayment(r) ==
    IF Dispatch(Item(r)) = "done" THEN Respond(r, 202) ELSE Goto(r, Dispatch(Item(r)))

----------------------------------------------------------------------------
(* Webhook route with HMAC verification *)

\* action, up to the first awaited storage call: parse the body, require an
\* item, require the HMAC key, verify the first item.  A raise (JSON.parse,
\* validateHMAC) lands in the catch-all, which answers 202.
WebhookIntake(in) ==
    IF in.body = "invalidJson" THEN 202
    ELSE IF in.body \in {"noItems", "emptyItems"} THEN 400
    ELSE IF ~in.hmacKey THEN 500
    ELSE IF in.hmac = "throws" THEN 202
    ELSE IF in.hmac = "invalid" THEN 401
    ELSE 0

StartWebhook(p) ==
    /\ CanStart(p)
    /\ \E in \in WebhookInputs :
         LET r == [IdleReq EXCEPT !.kind = "webhook", !.body = in.body,
                                  !.items = in.items, !.hmac = in.hmac,
                                  !.hmacKey = in.hmacKey]
         IN  Accept(p, IF WebhookIntake(in) = 0 THEN Goto(r, "cop_find")
                       ELSE Respond([r EXCEPT !.items = <<>>], WebhookIntake(in)))
    /\ started' = started + 1
    /\ UNCHANGED <<order, orderPayment, adyenSession, cartItem,
                   refundCalls, faults, race, authorised, call, checkout>>

\* createOrderPayment: findUnique by orderId
createOrderPayment_find(p) ==
    LET r == reqs[p] IN
    /\ r.kind = "webhook" /\ r.pc = "cop_find"
    /\ \E ok \in CallOutcomes :
         /\ Raise(ok)
         /\ IF ok
            THEN SetReq(p, Goto([r EXCEPT !.existingPayment =
                                    PaymentByOrderId(Item(r).merchantReference) # {}],
                                "cop_write"))
            ELSE SetReq(p, AfterCreateOrderPayment(Faulted(r)))
    /\ UNCHANGED <<order, orderPayment, adyenSession, cartItem,
                   refundCalls, started, race, authorised, call, checkout>>

\* db.orderPayment.update({ where: { orderId } }) is accepted when the row
\* exists and the new pspReference is not held by another row.
CanUpdatePayment(row) ==
    /\ PaymentByOrderId(row.orderId) # {}
    /\ \A x \in PaymentByPsp(row.pspReference) : x.orderId = row.orderId

\* The relation OrderPayment.order: a ledger row refers to an existing order
ReferencesOrder(row) == OrderById(row.orderId) # {}

\* db.orderPayment.create is accepted when orderId and pspReference are both
\* unused and the order the row refers to exists.
CanCreatePayment(row) ==
    /\ PaymentByOrderId(row.orderId) = {}
    /\ PaymentByPsp(row.pspReference) = {}
    /\ ReferencesOrder(row)

\* createOrderPayment: update the existing row or create one; every raise is
\* caught and logged inside createOrderPayment.
createOrderPayment_write(p) ==
    LET r == reqs[p]
        row == PaymentRow(Item(r))
        accepted == IF r.existingPayment THEN CanUpdatePayment(row)
                    ELSE CanCreatePayment(row)
    IN
    /\ r.kind = "webhook" /\ r.pc = "cop_write"
    /\ \E ok \in CallOutcomes :
         /\ Raise(ok)
         /\ IF ok /\ accepted
            THEN /\ orderPayment' = (orderPayment \ PaymentByOrderId(row.orderId))
                                        \cup {row}
                 /\ authorised' =
                      IF /\ row.eventCode = AUTHORISATION /\ row.success
                         /\ authorised[row.orderId] = ""
                      THEN [authorised EXCEPT ![row.orderId] = row.pspReference]
                      ELSE authorised
                 /\ SetReq(p, AfterCreateOrderPayment(Wrote(r, "orderPayment")))
            ELSE /\ UNCHANGED <<orderPayment, authorised>>
                 /\ SetReq(p, AfterCreateOrderPayment(IF ok THEN r ELSE Faulted(r)))
    /\ UNCHANGED <<order, adyenSession, cartItem, refundCalls, started, race, call, checkout>>

\* db.order.update({ where: { id }, data: { status } }): the table with the
\* status of order id replaced (no row: the call raises, the table is unchanged)
UpdateOrderStatus(id, status) ==
    { IF o.id = id THEN [o EXCEPT !.status = status] ELSE o : o \in order }

\* handleCancelOrRefund: findUnique by the notification's pspReference
handleCancelOrRefund_find(p) ==
    LET r == reqs[p]
        found == PaymentByPsp(Item(r).pspReference)
    IN
    /\ r.kind = "webhook" /\ r.pc = "cr_find"
    /\ \E ok \in CallOutcomes :
         /\ Raise(ok)
         /\ IF ~ok THEN SetReq(p, Respond(Faulted(r), 202))
            ELSE IF found = {} THEN SetReq(p, Respond(r, 202))
            ELSE LET id == (CHOOSE x \in found : TRUE).orderId
                 IN  SetReq(p, Goto([r EXCEPT !.target = id,
                                              !.pre = StatusOf(OrderById(id))],
                                    "cr_order"))
    /\ UNCHANGED <<order, orderPayment, adyenSession, cartItem,
                   refundCalls, started, race, authorised, call, checkout>>

\* Faulty variant: every successful modification counts as a refund
NewStatus_refundOnly(item) == REFUNDED

\* const newStatus = action === 'refund' ? 'REFUNDED' : 'CANCELLED', with
\* action = additionalData?.['modification.action'] || 'refund'
NewStatus(item) ==
    LET action == IF item.action = "" THEN "refund" ELSE item.action
    IN  IF action = "refund" THEN REFUNDED ELSE CANCELLED

\* handleCancelOrRefund: write the order status when success === "true"
handleCancelOrRefund_order(p) ==
    LET r == reqs[p] IN
    /\ r.kind = "webhook" /\ r.pc = "cr_order"
    /\ \E ok \in (IF Item(r).success = "true" THEN CallOutcomes ELSE {TRUE}) :
         /\ Raise(ok)
         /\ IF Item(r).success # "true"
            THEN /\ UNCHANGED order
                 /\ SetReq(p, Goto(r, "cr_payment"))
            ELSE IF ok /\ OrderById(r.target) # {}
            THEN /\ order' = UpdateOrderStatus(r.target, NewStatus(Item(r)))
                 /\ SetReq(p, Goto(Wrote(r, "order"), "cr_payment"))
            ELSE /\ UNCHANGED order
                 /\ SetReq(p, Respond(IF ok THEN r ELSE Faulted(r), 202))
    /\ UNCHANGED <<orderPayment, adyenSession, cartItem, refundCalls, started, race, authorised, call, checkout>>

\* handleCancelOrRefund: update the ledger row of the order in place
\* (eventCode and success; pspReference and amount are not in the data)
handleCancelOrRefund_payment(p) ==
    LET r == reqs[p]
        old == PaymentByOrderId(r.target)
    IN
    /\ r.kind = "webhook" /\ r.pc = "cr_payment"
    /\ \E ok \in CallOutcomes :
         /\ Raise(ok)
         /\ IF ok /\ old # {}
            THEN /\ orderPayment' = (orderPayment \ old) \cup
                        { [x EXCEPT !.eventCode = Item(r).eventCode,
                                    !.success = (Item(r).success = "true")] : x \in old }
                 /\ SetReq(p, Respond(Wrote(r, "orderPayment"), 202))
            ELSE /\ UNCHANGED orderPayment
                 /\ SetReq(p, Respond(IF ok THEN r ELSE Faulted(r), 202))
    /\ UNCHANGED <<order, adyenSession, cartItem, refundCalls, started, race, authorised, call, checkout>>

\* handlePaymentSuccess: findUnique of the order by merchantReference
handlePaymentSuccess_find(p) ==
    LET r == reqs[p] IN
    /\ r.kind = "webhook" /\ r.pc = "ps_find"
    /\ \E ok \in CallOutcomes :
         /\ Raise(ok)
         /\ IF ~ok THEN SetReq(p, Respond(Faulted(r), 202))
            ELSE IF OrderById(Item(r).merchantReference) = {}
            THEN SetReq(p, Respond(r, 202))
            ELSE SetReq(p, Goto([r EXCEPT !.pre =
                                    StatusOf(OrderById(Item(r).merchantReference))],
                                "ps_update"))
    /\ UNCHANGED <<order, orderPayment, adyenSession, cartItem,
                   refundCalls, started, race, authorised, call, checkout>>

\* Faulty variant: the status write is outside the try block, a raise reaches the
\* framework and is answered 500
handlePaymentSuccess_update_uncaught(p) ==
    LET r == reqs[p] IN
    /\ r.kind = "webhook" /\ r.pc = "ps_update"
    /\ \E ok \in CallOutcomes :
         /\ Raise(ok)
         /\ IF ok /\ OrderById(Item(r).merchantReference) # {}
            THEN /\ order' = UpdateOrderStatus(Item(r).merchantReference, SUCCESSFUL)
                 /\ SetReq(p, Goto([Wrote(r, "order") EXCEPT
                                       !.target = Item(r).merchantReference],
                                   "cleanup_find"))
            ELSE /\ UNCHANGED order
                 /\ SetReq(p, Respond(IF ok THEN r ELSE Faulted(r), 500))
    /\ UNCHANGED <<orderPayment, adyenSession, cartItem, refundCalls, started, race, authorised, call, checkout>>

\* handlePaymentSuccess: status := SUCCESSFUL, then on to the session cleanup
handlePaymentSuccess_update(p) ==
    LET r == reqs[p] IN
    /\ r.kind = "webhook" /\ r.pc = "ps_update"
    /\ \E ok \in CallOutcomes :
         /\ Raise(ok)
         /\ IF ok /\ OrderById(Item(r).merchantReference) # {}
            THEN /\ order' = UpdateOrderStatus(Item(r).merchantReference, SUCCESSFUL)
                 /\ SetReq(p, Goto([Wrote(r, "order") EXCEPT
                                       !.target = Item(r).merchantReference],
                                   "cleanup_find"))
            ELSE /\ UNCHANGED order
                 /\ SetReq(p, Respond(IF ok THEN r ELSE Faulted(r), 202))
    /\ UNCHANGED <<orderPayment, adyenSession, cartItem, refundCalls, started, race, authorised, call, checkout>>

\* Faulty variant: an unknown order is reported to the provider as 404
handlePaymentFailure_find_notFound(p) ==
    LET r == reqs[p] IN
    /\ r.kind = "webhook" /\ r.pc = "pf_find"
    /\ \E ok \in CallOutcomes :
         /\ Raise(ok)
         /\ IF ~ok THEN SetReq(p, Respond(Faulted(r), 202))
            ELSE IF OrderById(Item(r).merchantReference) = {}
            THEN SetReq(p, Respond(r, 404))
            ELSE SetReq(p, Goto([r EXCEPT !.pre =
                                    StatusOf(OrderById(Item(r).merchantReference))],
                                "pf_update"))
    /\ UNCHANGED <<order, orderPayment, adyenSession, cartItem,
                   refundCalls, started, race, authorised, call, checkout>>

\* handlePaymentFailure: findUnique of the order by merchantReference
handlePaymentFailure_find(p) ==
    LET r == reqs[p] IN
    /\ r.kind = "webhook" /\ r.pc = "pf_find"
    /\ \E ok \in CallOutcomes :
         /\ Raise(ok)
         /\ IF ~ok THEN SetReq(p, Respond(Faulted(r), 202))
            ELSE IF OrderById(Item(r).merchantReference) = {}
            THEN SetReq(p, Respond(r, 202))
            ELSE SetReq(p, Goto([r EXCEPT !.pre =
                                    StatusOf(OrderById(Item(r).merchantReference))],
                                "pf_update"))
    /\ UNCHANGED <<order, orderPayment, adyenSession, cartItem,
                   refundCalls, started, race, authorised, call, checkout>>

\* handlePaymentFailure: status := FAILED
handlePaymentFailure_update(p) ==
    LET r == reqs[p] IN
    /\ r.kind = "webhook" /\ r.pc = "pf_update"
    /\ \E ok \in CallOutcomes :
         /\ Raise(ok)
         /\ IF ok /\ OrderById(Item(r).merchantReference) # {}
            THEN /\ order' = UpdateOrderStatus(Item(r).merchantReference, FAILED)
                 /\ SetReq(p, Respond(Wrote(r, "order"), 202))
            ELSE /\ UNCHANGED order
                 /\ SetReq(p, Respond(IF ok THEN r ELSE Faulted(r), 202))
    /\ UNCHANGED <<orderPayment, adyenSession, cartItem, refundCalls, started, race, authorised, call, checkout>>

----------------------------------------------------------------------------
(* Session cleanup, called by handlePaymentSuccess and by the finalization *)

SessionsOfOrder(id) == { x \in adyenSession : x.orderId = id }

\* Faulty variant: the finalization calls the cleanup outside a try of its
\* own, a raise reaches the catch of the action
AfterCleanup_uncaught(r) ==
    Respond(r, IF r.kind = "webhook" THEN 202 ELSE IF r.threw THEN 500 ELSE 200)

\* What the caller answers once the best-effort cleanup has returned or raised
AfterCleanup(r) == Respond(r, IF r.kind = "webhook" THEN 202 ELSE 200)

\* cleanupSessionsForOrder(orderId): findMany; nothing found, nothing to do
cleanupSessionsForOrder_find(p) ==
    LET r == reqs[p] IN
    /\ r.pc = "cleanup_find"
    /\ \E ok \in CallOutcomes :
         /\ Raise(ok)
         /\ IF ~ok THEN SetReq(p, AfterCleanup(Faulted(r)))
            ELSE IF SessionsOfOrder(r.target) = {} THEN SetReq(p, AfterCleanup(r))
            ELSE SetReq(p, Goto(r, "cleanup_delete"))
    /\ UNCHANGED <<order, orderPayment, adyenSession, cartItem,
                   refundCalls, started, race, authorised, call, checkout>>

\* Faulty variant: the cleanup keeps one session of the order
cleanupSessionsForOrder_delete_keepOne(p) ==
    LET r == reqs[p]
        kept == IF SessionsOfOrder(r.target) = {} THEN {}
                ELSE {CHOOSE x \in SessionsOfOrder(r.target) : TRUE}
    IN
    /\ r.pc = "cleanup_delete"
    /\ \E ok \in CallOutcomes :
         /\ Raise(ok)
         /\ IF ok
            THEN /\ adyenSession' = adyenSession \ (SessionsOfOrder(r.target) \ kept)
                 /\ SetReq(p, AfterCleanup(IF SessionsOfOrder(r.target) # {}
                                           THEN Wrote(r, "adyenSession") ELSE r))
            ELSE /\ UNCHANGED adyenSession
                 /\ SetReq(p, AfterCleanup(Faulted(r)))
    /\ UNCHANGED <<order, orderPayment, cartItem, refundCalls, started, race, authorised, call, checkout>>

\* cleanupSessionsForOrder(orderId): deleteMany({ where: { orderId } }), no
\* session kept since keepSessionId is not passed
cleanupSessionsForOrder_delete(p) ==
    LET r == reqs[p] IN
    /\ r.pc = "cleanup_delete"
    /\ \E ok \in CallOutcomes :
         /\ Raise(ok)
         /\ IF ok
            THEN /\ adyenSession' = adyenSession \ SessionsOfOrder(r.target)
                 /\ SetReq(p, AfterCleanup(IF SessionsOfOrder(r.target) # {}
                                           THEN Wrote(r, "adyenSession") ELSE r))
            ELSE /\ UNCHANGED adyenSession
                 /\ SetReq(p, AfterCleanup(Faulted(r)))
    /\ UNCHANGED <<order, orderPayment, cartItem, refundCalls, started, race, authorised, call, checkout>>

----------------------------------------------------------------------------
(* Webhook route without verification (routes/api.webhooks.adyen.tsx) *)

IsAuthorisation(item) ==
    item.eventCode = AUTHORISATION /\ item.success \in {"true", "false"}

\* The for loop over notificationItems from index i on: the next item a
\* handler is called for, or the final 200.
RECURSIVE LegacyLoop(_, _)
LegacyLoop(r, i) ==
    IF i > Len(r.items) THEN Respond([r EXCEPT !.items = <<>>], 200)
    ELSE IF IsAuthorisation(r.items[i]) THEN [r EXCEPT !.idx = i, !.pc = "lg_find"]
    ELSE LegacyLoop(r, i + 1)

\* action: the signature check is a TODO, every body that parses is processed;
\* a raise of JSON.parse is answered 200 by the catch-all
StartLegacyWebhook(p) ==
    /\ CanStart(p)
    /\ \E in \in WebhookInputs :
         LET r == [IdleReq EXCEPT !.kind = "legacyWebhook", !.body = in.body,
                                  !.items = in.items, !.hmac = in.hmac,
                                  !.hmacKey = in.hmacKey]
         IN  Accept(p, IF in.body = "invalidJson"
                       THEN Respond([r EXCEPT !.items = <<>>], 200)
                       ELSE LegacyLoop(r, 1))
    /\ started' = started + 1
    /\ UNCHANGED <<order, orderPayment, adyenSession, cartItem,
                   refundCalls, faults, race, authorised, call, checkout>>

\* handlePaymentSuccess / handlePaymentFailure of this route: findUnique
legacyHandler_find(p) ==
    LET r == reqs[p]
        item == r.items[r.idx]
    IN
    /\ r.kind = "legacyWebhook" /\ r.pc = "lg_find"
    /\ \E ok \in CallOutcomes :
         /\ Raise(ok)
         /\ IF ~ok THEN SetReq(p, LegacyLoop(Faulted(r), r.idx + 1))
            ELSE IF OrderById(item.merchantReference) = {}
            THEN SetReq(p, LegacyLoop(r, r.idx + 1))
            ELSE SetReq(p, Goto(r, "lg_update"))
    /\ UNCHANGED <<order, orderPayment, adyenSession, cartItem,
                   refundCalls, started, race, authorised, call, checkout>>

\* handlePaymentSuccess / handlePaymentFailure of this route: the status write
legacyHandler_update(p) ==
    LET r == reqs[p]
        item == r.items[r.idx]
        status == IF item.success = "true" THEN SUCCESSFUL ELSE FAILED
    IN
    /\ r.kind = "legacyWebhook" /\ r.pc = "lg_update"
    /\ \E ok \in CallOutcomes :
         /\ Raise(ok)
         /\ IF ok /\ OrderById(item.merchantReference) # {}
            THEN /\ order' = UpdateOrderStatus(item.merchantReference, status)
                 /\ SetReq(p, LegacyLoop(Wrote(r, "order"), r.idx + 1))
            ELSE /\ UNCHANGED order
                 /\ SetReq(p, LegacyLoop(IF ok THEN r ELSE Faulted(r), r.idx + 1))
    /\ UNCHANGED <<orderPayment, adyenSession, cartItem, refundCalls, started, race, authorised, call, checkout>>

----------------------------------------------------------------------------
(* Refund initiation (orders route action) *)

\* Faulty variant: the status of the order is not checked
RefundCheck_noStatus(found, payment) ==
    IF found = {} THEN 404
    ELSE IF payment = {} THEN 404
    ELSE 0

\* The three rejections after findFirst({ where: { id, userId }, include payment })
RefundCheck(found, payment) ==
    IF found = {} THEN 404
    ELSE IF payment = {} THEN 404
    ELSE IF (CHOOSE o \in found : TRUE).status # SUCCESSFUL THEN 400
    ELSE 0

StartRefund(p) ==
    /\ CanStart(p)
    /\ \E u \in UserIds, id \in OrderIds \cup {""} :
         LET r == [IdleReq EXCEPT !.kind = "refund", !.userId = u, !.orderId = id]
         IN  Accept(p, IF id = "" THEN Respond(r, 400) ELSE Goto(r, "rf_find"))
    /\ started' = started + 1
    /\ UNCHANGED <<order, orderPayment, adyenSession, cartItem,
                   refundCalls, faults, race, authorised, call, checkout>>

refund_find(p) ==
    LET r == reqs[p]
        found == { o \in OrderById(r.orderId) : o.userId = r.userId }
        payment == PaymentByOrderId(r.orderId)
    IN
    /\ r.kind = "refund" /\ r.pc = "rf_find"
    /\ \E ok \in CallOutcomes :
         /\ Raise(ok)
         /\ IF ~ok THEN SetReq(p, Respond(Faulted(r), 500))
            ELSE IF RefundCheck(found, payment) # 0
            THEN SetReq(p, Respond([r EXCEPT !.pre = StatusOf(found)],
                                   RefundCheck(found, payment)))
            ELSE SetReq(p, Goto([r EXCEPT !.payment = CHOOSE x \in payment : TRUE,
                                          !.pre = StatusOf(found)],
                                "rf_call"))
    /\ UNCHANGED <<order, orderPayment, adyenSession, cartItem,
                   refundCalls, started, race, authorised, call, checkout>>

\* AdyenService.refundPayment(order.payment): the modification is keyed by the
\* pspReference of the ledger row, which is also the idempotency key
refundPayment(payment) ==
    [pspReference |-> payment.pspReference, idempotencyKey |-> payment.pspReference,
     orderId |-> payment.orderId]

refund_call(p) ==
    LET r == reqs[p] IN
    /\ r.kind = "refund" /\ r.pc = "rf_call"
    /\ \E ok \in CallOutcomes :
         /\ Raise(ok)
         /\ IF ok
            THEN /\ refundCalls' = Append(refundCalls, refundPayment(r.payment))
                 /\ SetReq(p, Goto(Wrote(r, "provider"), "rf_update"))
            ELSE /\ UNCHANGED refundCalls
                 /\ SetReq(p, Respond(Faulted(r), 500))
    /\ UNCHANGED <<order, orderPayment, adyenSession, cartItem, started, race, authorised, call, checkout>>

refund_update(p) ==
    LET r == reqs[p] IN
    /\ r.kind = "refund" /\ r.pc = "rf_update"
    /\ \E ok \in CallOutcomes :
         /\ Raise(ok)
         /\ IF ok /\ OrderById(r.orderId) # {}
            THEN /\ order' = UpdateOrderStatus(r.orderId, REFUND_IN_PROGRESS)
                 /\ SetReq(p, Respond(Wrote(r, "order"), 200))
            ELSE /\ UNCHANGED order
                 /\ SetReq(p, Respond(IF ok THEN r ELSE Faulted(r), 500))
    /\ UNCHANGED <<orderPayment, adyenSession, cartItem, refundCalls, started, race, authorised, call, checkout>>

----------------------------------------------------------------------------
(* Order finalization (create-order route action) *)

CartOf(u) == { c \in cartItem : c.userId = u }

StartFinalize(p) ==
    /\ CanStart(p)
    /\ \E u \in UserIds, id \in OrderIds :
         Accept(p, [IdleReq EXCEPT !.kind = "finalize", !.userId = u, !.orderId = id,
                                   !.pc = "fz_cart"])
    /\ started' = started + 1
    /\ UNCHANGED <<order, orderPayment, adyenSession, cartItem,
                   refundCalls, faults, race, authorised, call, checkout>>

\* getCartItems(userId); an empty cart is answered 400
finalize_cart(p) ==
    LET r == reqs[p] IN
    /\ r.kind = "finalize" /\ r.pc = "fz_cart"
    /\ \E ok \in CallOutcomes :
         /\ Raise(ok)
         /\ IF ~ok THEN SetReq(p, Respond(Faulted(r), 500))
            ELSE IF CartOf(r.userId) = {} THEN SetReq(p, Respond(r, 400))
            ELSE SetReq(p, Goto([r EXCEPT !.cart = CartOf(r.userId)], "fz_create"))
    /\ UNCHANGED <<order, orderPayment, adyenSession, cartItem,
                   refundCalls, started, race, authorised, call, checkout>>

\* Faulty variant: the order is written with upsert, an existing row with the
\* id is replaced by the PENDING order
finalize_create_upsert(p) ==
    LET r == reqs[p]
        row == [id |-> r.orderId, userId |-> r.userId, status |-> PENDING,
                items |-> { [productId |-> c.productId, quantity |-> c.quantity] :
                            c \in r.cart }]
    IN
    /\ r.kind = "finalize" /\ r.pc = "fz_create"
    /\ \E ok \in CallOutcomes :
         /\ Raise(ok)
         /\ IF ok
            THEN /\ order' = (order \ OrderById(r.orderId)) \cup {row}
                 /\ SetReq(p, Goto(Wrote(r, "order"), "fz_clear"))
            ELSE /\ UNCHANGED order
                 /\ SetReq(p, Respond(Faulted(r), 500))
    /\ UNCHANGED <<orderPayment, adyenSession, cartItem, refundCalls, started, race, authorised, call, checkout>>

\* db.order.create with the given id, PENDING, line items from the cart read
finalize_create(p) ==
    LET r == reqs[p]
        row == [id |-> r.orderId, userId |-> r.userId, status |-> PENDING,
                items |-> { [productId |-> c.productId, quantity |-> c.quantity] :
                            c \in r.cart }]
    IN
    /\ r.kind = "finalize" /\ r.pc = "fz_create"
    /\ \E ok \in CallOutcomes :
         /\ Raise(ok)
         /\ IF ok /\ OrderById(r.orderId) = {}
            THEN /\ order' = order \cup {row}
                 /\ SetReq(p, Goto(Wrote(r, "order"), "fz_clear"))
            ELSE /\ UNCHANGED order
                 /\ SetReq(p, Respond(IF ok THEN r ELSE Faulted(r), 500))
    /\ UNCHANGED <<orderPayment, adyenSession, cartItem, refundCalls, started, race, authorised, call, checkout>>

\* clearCart(userId), then the best-effort cleanupSessionsForOrder(orderId)
finalize_clear(p) ==
    LET r == reqs[p] IN
    /\ r.kind = "finalize" /\ r.pc = "fz_clear"
    /\ \E ok \in CallOutcomes :
         /\ Raise(ok)
         /\ IF ok
            THEN /\ cartItem' = cartItem \ CartOf(r.userId)
                 /\ SetReq(p, Goto([Wrote(r, "cartItem") EXCEPT !.target = r.orderId],
                                   "cleanup_find"))
            ELSE /\ UNCHANGED cartItem
                 /\ SetReq(p, Respond(Faulted(r), 500))
    /\ UNCHANGED <<order, orderPayment, adyenSession, refundCalls, started, race, authorised, call, checkout>>

----------------------------------------------------------------------------
(* The session store called directly: cleanupSessionsForOrder(orderId,     *)
(* keepSessionId) followed by getAdyenSessionByOrderId(orderId, userId)    *)

\* Session ids the provider gives to sessions created later
NewSessionIds == {"s4"}

SessionIds == { x.sessionId : x \in Sessions0 } \cup NewSessionIds

\* Faulty variant: the filter on sessionId is inverted
SessionsToDelete_inverted(sessions, keep) ==
    IF keep # "" THEN { x \in sessions : x.sessionId = keep } ELSE sessions

\* sessionsToDelete, also the rows matched by the where clause of deleteMany;
\* an empty keepSessionId is falsy and counts as omitted
SessionsToDelete(sessions, keep) ==
    IF keep # "" THEN { x \in sessions : x.sessionId # keep } ELSE sessions

\* The rows findFirst({ where: { orderId, userId } }) may return
SessionsByOrderAndUser(orderId, userId) ==
    { x \in adyenSession : x.orderId = orderId /\ x.userId = userId }

StoreUnchanged ==
    UNCHANGED <<order, orderPayment, cartItem, reqs, refundCalls, started,
                faults, race, authorised, checkout>>

\* cleanupSessionsForOrder(orderId, keepSessionId) is called
store_cleanup_call ==
    /\ call.pc \in {"idle", "done"}
    /\ \E id \in OrderIds, keep \in SessionIds \cup {""} :
         call' = [NoCall EXCEPT !.pc = "find", !.orderId = id, !.keep = keep,
                                !.before = adyenSession, !.now = call.now,
                                !.last = call.last]
    /\ UNCHANGED adyenSession
    /\ StoreUnchanged

\* findMany({ where: { orderId } }) and the two early returns
store_cleanup_find ==
    /\ call.pc = "find"
    /\ call' = [call EXCEPT !.pc =
                   IF SessionsToDelete(SessionsOfOrder(call.orderId), call.keep) = {}
                   THEN "get" ELSE "delete"]
    /\ UNCHANGED adyenSession
    /\ StoreUnchanged

\* Faulty variant: delete in place of deleteMany, one row is deleted
store_cleanup_delete_one ==
    LET rows == SessionsToDelete(SessionsOfOrder(call.orderId), call.keep) IN
    /\ call.pc = "delete"
    /\ adyenSession' = IF rows = {} THEN adyenSession
                       ELSE adyenSession \ {CHOOSE x \in rows : TRUE}
    /\ call' = [call EXCEPT !.pc = "get"]
    /\ StoreUnchanged

\* deleteMany({ where: { orderId, sessionId: { not: keepSessionId } } })
store_cleanup_delete ==
    /\ call.pc = "delete"
    /\ adyenSession' = adyenSession \
                          SessionsToDelete(SessionsOfOrder(call.orderId), call.keep)
    /\ call' = [call EXCEPT !.pc = "get"]
    /\ StoreUnchanged

\* getAdyenSessionByOrderId(orderId, userId): findFirst has no orderBy, any
\* matching row may be returned; "" is null
store_get ==
    /\ call.pc = "get"
    /\ \E u \in UserIds :
         LET found == SessionsByOrderAndUser(call.orderId, u) IN
         \E res \in (IF found = {} THEN {""} ELSE { x.sessionId : x \in found }) :
             call' = [call EXCEPT !.pc = "done", !.userId = u, !.result = res]
    /\ UNCHANGED adyenSession
    /\ StoreUnchanged

InitStore ==
    /\ InitCommon
    /\ race = FALSE
    /\ order = Orders0 /\ orderPayment = {}
    /\ adyenSession \in SUBSET Sessions0
    /\ authorised = [id \in OrderIds |-> ""]

NextStore ==
    \/ store_cleanup_call
    \/ store_cleanup_find
    \/ store_cleanup_delete
    \/ store_get

SpecStore == InitStore /\ [][NextStore]_vars

----------------------------------------------------------------------------
(* The session store used by overlapping callers: the single-call          *)
(* operations run at any time, also between the two calls of a cleanup     *)

MaxNow == 2          \* the clock takes the values 1..MaxNow
MaxStoreOps == 2     \* single-call operations of the store
\* Lifetime the provider gives a session (expiresAt of the response)
SessionLifetime == 1

SessionById(sessionId) == { x \in adyenSession : x.sessionId = sessionId }

\* The outcome of a single-call operation
Last(op, orderId, userId, sessionId, result, raised) ==
    [op |-> op, orderId |-> orderId, userId |-> userId, sessionId |-> sessionId,
     result |-> result, raised |-> raised]

\* A single-call operation starts: started counts them
StoreOp ==
    /\ started < MaxStoreOps
    /\ started' = started + 1
    /\ UNCHANGED <<order, orderPayment, cartItem, reqs, refundCalls,
                   faults, race, authorised, checkout>>

\* Time passes
store_tick ==
    /\ call.now < MaxNow
    /\ call' = [call EXCEPT !.now = @ + 1]
    /\ UNCHANGED adyenSession
    /\ StoreUnchanged

\* storeAdyenSession(userId, orderId, sessionResponse): create; sessionId is
\* unique, a second row with it is refused
storeAdyenSession ==
    /\ \E u \in UserIds, id \in OrderIds, sid \in NewSessionIds :
         IF SessionById(sid) = {}
         THEN /\ adyenSession' = adyenSession \cup
                     { [sessionId |-> sid, orderId |-> id, userId |-> u,
                        createdAt |-> call.now,
                        expiresAt |-> call.now + SessionLifetime] }
              /\ call' = [call EXCEPT !.puts = TRUE,
                                      !.last = Last("put", id, u, sid, sid, FALSE)]
         ELSE /\ UNCHANGED adyenSession
              /\ call' = [call EXCEPT !.last = Last("put", id, u, sid, "", TRUE)]
    /\ StoreOp

\* db.adyenSession.delete({ where: { sessionId } }) raises when no row has
\* the session id (Prisma: record to delete does not exist)
DeleteRaises(sessionId) == SessionById(sessionId) = {}

\* deleteAdyenSession(sessionId)
deleteAdyenSession ==
    /\ \E sid \in SessionIds :
         /\ adyenSession' = adyenSession \ SessionById(sid)
         /\ call' = [call EXCEPT !.last =
                        Last("deleteBySession", "", "", sid, "", DeleteRaises(sid))]
    /\ StoreOp

\* cleanupExpiredSessions(): deleteMany({ where: { expiresAt: { lt: now } } })
cleanupExpiredSessions ==
    /\ adyenSession' = { x \in adyenSession : ~(x.expiresAt < call.now) }
    /\ call' = [call EXCEPT !.last = Last("deleteExpired", "", "", "", "", FALSE)]
    /\ StoreOp

\* Faulty variant: the loader does not look at expiresAt
Expired_never(session, now) == FALSE

\* new Date() > adyenSession.expiresAt
Expired(session, now) == now > session.expiresAt

\* The checkout loader: the session found for (orderId, userId) is presented;
\* redirect to the cart ("") when none is found, when it has expired or when
\* the cart is empty
checkout_loader ==
    /\ \E u \in UserIds, id \in OrderIds :
         LET found == SessionsByOrderAndUser(id, u) IN
         IF found = {}
         THEN call' = [call EXCEPT !.last = Last("loader", id, u, "", "", FALSE)]
         ELSE \E x \in found :
                call' = [call EXCEPT !.last =
                    Last("loader", id, u, x.sessionId,
                         IF Expired(x, call.now) \/ CartOf(u) = {}
                         THEN "" ELSE x.sessionId,
                         FALSE)]
    /\ UNCHANGED adyenSession
    /\ StoreOp

\* Both users have a cart
Carts2 == Carts0 \cup { [userId |-> "u1", productId |-> "a", quantity |-> 2] }

InitStoreRace ==
    /\ reqs = [p \in Procs |-> IdleReq]
    /\ refundCalls = <<>>
    /\ started = 0
    /\ faults = 0
    /\ call = NoCall
    /\ checkout = NoCheckout
    /\ race = TRUE
    /\ cartItem = Carts2
    /\ order = Orders0 /\ orderPayment = {}
    /\ adyenSession \in SUBSET Sessions0
    /\ authorised = [id \in OrderIds |-> ""]

NextStoreRace ==
    \/ store_cleanup_call
    \/ store_cleanup_find
    \/ store_cleanup_delete
    \/ store_get
    \/ store_tick
    \/ storeAdyenSession
    \/ deleteAdyenSession
    \/ cleanupExpiredSessions
    \/ checkout_loader

SpecStoreRace == InitStoreRace /\ [][NextStoreRace]_vars

----------------------------------------------------------------------------
(* The gateway pricing a cart and minting the idempotency key of a session *)
(* request; the finalization pricing the same cart for the order.  Prices  *)
(* are whole cents; subtotal, tax and total are held in 1/100 of a cent,   *)
(* which makes subtotal * 0.08 exact.                                      *)

MaxQuantity == 2     \* quantity of a product in the cart
MaxClock == 1        \* Date.now() takes the values 0..MaxClock
MaxSessions == 2     \* session requests built for the cart

Products == {"a", "b"}
\* product.price in cents
ProductPrice(productId) == IF productId = "a" THEN 999 ELSE 2500

\* Length of the user ids: a generated id and a short one
UserIdLength(u) == IF u = "u1" THEN 25 ELSE 2
\* Digits of Date.now() in base 10 and in base 36
NowDigits == 13
NowDigits36 == 8
\* Math.random().toString(36).substr(2, 8): a value and the number of
\* characters left of it
RandomParts == { [value |-> 0, length |-> 0], [value |-> 1, length |-> 8] }

Carts ==
    { { [productId |-> i, quantity |-> q[i], price |-> ProductPrice(i)] :
        i \in { j \in Products : q[j] > 0 } } :
      q \in [Products -> 0..MaxQuantity] } \ { {} }

\* cartItems.reduce((sum, item) => sum + item.product.price * item.quantity, 0)
RECURSIVE calculateCartTotal(_)
calculateCartTotal(cartItems) ==
    IF cartItems = {} THEN 0
    ELSE LET item == CHOOSE x \in cartItems : TRUE IN
         item.price * 100 * item.quantity + calculateCartTotal(cartItems \ {item})

\* Math.round(x * 100) of a non-negative x: the nearest cent, halves up
MathRound(x) == (x + 50) \div 100

\* subtotal * 0.08, not rounded
Tax(subtotal) == (subtotal * 8) \div 100

Min(a, b) == IF a < b THEN a ELSE b

\* orderId = `order_${userId}_${Date.now()}` (cart.tsx)
OrderIdOf(u, now) == [userId |-> u, now |-> now]

\* orderId.replace("order_", "").substr(0, 20): the digits of Date.now()
\* survive when the user id leaves room for them
orderIdShort(orderId) ==
    [userId |-> orderId.userId,
     now |-> IF UserIdLength(orderId.userId) + 1 + NowDigits <= 20
             THEN orderId.now ELSE -1,
     length |-> Min(UserIdLength(orderId.userId) + 1 + NowDigits, 20)]

\* `${orderIdShort}-${timestamp}-${randomPart}`.substr(0, 64): nothing is cut
\* when the three parts and the two dashes fit
idempotencyKey(orderId, now, random) ==
    LET short == orderIdShort(orderId)
        length == short.length + 1 + NowDigits36 + 1 + random.length
    IN  [orderIdShort |-> [userId |-> short.userId, now |-> short.now],
         timestamp |-> IF short.length + 1 + NowDigits36 <= 64 THEN now ELSE -1,
         randomPart |-> IF length <= 64 THEN random.value ELSE -1,
         length |-> Min(length, 64)]

\* createCheckoutSessionFromCart(cartItems, orderId, returnUrl, userId)
createCheckoutSessionFromCart(cartItems, orderId, now, random) ==
    LET subtotal == calculateCartTotal(cartItems)
        tax == Tax(subtotal)
        total == subtotal + tax
    IN  [reference |-> orderId, subtotal |-> subtotal, tax |-> tax, total |-> total,
         amount |-> MathRound(total),
         idempotencyKey |-> idempotencyKey(orderId, now, random)]

GatewayUnchanged ==
    UNCHANGED <<order, orderPayment, adyenSession, cartItem, reqs, refundCalls,
                started, faults, race, authorised, call>>

\* One POST of the checkout intent by user u at the current or a later time:
\* a new order id, then the session request.  attempt is the checkout attempt
\* the POST belongs to.  The values checkout may take.
CheckoutIntent(u, attempt) ==
    { [checkout EXCEPT
          !.now = now,
          !.sessions = Append(@, [attempt |-> attempt, userId |-> u,
                                  request |-> createCheckoutSessionFromCart(
                                                  checkout.cartItems,
                                                  OrderIdOf(u, now), now, random)])] :
      now \in checkout.now..MaxClock, random \in RandomParts }

\* A user starts a checkout of the cart
checkout_intent ==
    /\ Len(checkout.sessions) < MaxSessions
    /\ \E u \in UserIds :
         checkout' \in CheckoutIntent(u, Len(checkout.sessions) + 1)
    /\ GatewayUnchanged

\* The POST of the last attempt is sent again before a session was submitted
checkout_retry ==
    /\ Len(checkout.sessions) < MaxSessions
    /\ checkout.sessions # <<>>
    /\ LET last == checkout.sessions[Len(checkout.sessions)] IN
       checkout' \in CheckoutIntent(last.userId, last.attempt)
    /\ GatewayUnchanged

\* The finalization prices the cart for the order row
finalize_totals ==
    /\ checkout.order = <<>>
    /\ LET subtotal == calculateCartTotal(checkout.cartItems)
           tax == Tax(subtotal)
       IN  checkout' = [checkout EXCEPT !.order =
               <<[subtotal |-> subtotal, tax |-> tax, total |-> subtotal + tax]>>]
    /\ GatewayUnchanged

InitGateway ==
    /\ cartItem = Carts0
    /\ reqs = [p \in Procs |-> IdleReq]
    /\ refundCalls = <<>>
    /\ started = 0
    /\ faults = 0
    /\ call = NoCall
    /\ race = FALSE
    /\ order = Orders0 /\ orderPayment = {} /\ adyenSession = Sessions0
    /\ authorised = [id \in OrderIds |-> ""]
    /\ checkout \in [cartItems : Carts, now : {0}, sessions : {<<>>}, order : {<<>>},
                     provider : {<<>>}]

NextGateway ==
    \/ checkout_intent
    \/ checkout_retry
    \/ finalize_totals

SpecGateway == InitGateway /\ [][NextGateway]_vars

----------------------------------------------------------------------------
(* The checkout intent of the cart route, from the cart to the stored      *)
(* session; checkout.provider lists the session creations the provider     *)
(* received, each with the number of the request that made it              *)

ProviderSessionIds == {"s4", "s5"}
\* What PaymentsApi.sessions does: a response with sessionData, a response
\* without, or a rejection
ProviderOutcomes == {"session", "noData", "failed"}

StartCheckout(p) ==
    /\ CanStart(p)
    /\ \E u \in UserIds, id \in OrderIds :
         Accept(p, [IdleReq EXCEPT !.kind = "checkout", !.userId = u, !.orderId = id,
                                   !.pc = "ck_cart"])
    /\ started' = started + 1
    /\ UNCHANGED <<order, orderPayment, adyenSession, cartItem,
                   refundCalls, faults, race, authorised, call, checkout>>

\* getCartItems(userId); an empty cart is answered 400
checkout_cart(p) ==
    LET r == reqs[p] IN
    /\ r.kind = "checkout" /\ r.pc = "ck_cart"
    /\ \E ok \in CallOutcomes :
         /\ Raise(ok)
         /\ IF ~ok THEN SetReq(p, Respond(Faulted(r), 500))
            ELSE IF CartOf(r.userId) = {} THEN SetReq(p, Respond(r, 400))
            ELSE SetReq(p, Goto([r EXCEPT !.cart = CartOf(r.userId)], "ck_request"))
    /\ UNCHANGED <<order, orderPayment, adyenSession, cartItem,
                   refundCalls, started, race, authorised, call, checkout>>

\* createCheckoutSessionFromCart: db.user.findUnique, then the request
checkout_request(p) ==
    LET r == reqs[p] IN
    /\ r.kind = "checkout" /\ r.pc = "ck_request"
    /\ \E ok \in CallOutcomes :
         /\ Raise(ok)
         /\ IF ok THEN SetReq(p, Goto(r, "ck_provider"))
            ELSE SetReq(p, Respond(Faulted(r), 500))
    /\ UNCHANGED <<order, orderPayment, adyenSession, cartItem,
                   refundCalls, started, race, authorised, call, checkout>>

\* Faulty variant: a rejected session creation is sent again
AfterProvider_retry(r, outcome, sid) ==
    IF outcome = "session" THEN Goto([r EXCEPT !.target = sid], "ck_store")
    ELSE IF outcome = "failed" THEN Goto(r, "ck_provider")
    ELSE Respond([r EXCEPT !.threw = TRUE], 500)

\* Control after createPaymentSession: a rejection is rethrown and reaches
\* the catch of the intent, as does a response without sessionData
AfterProvider(r, outcome, sid) ==
    IF outcome = "session" THEN Goto([r EXCEPT !.target = sid], "ck_store")
    ELSE Respond([r EXCEPT !.threw = TRUE], 500)

\* createPaymentSession(request, requestOptions): one call of the provider
checkout_provider(p) ==
    LET r == reqs[p]
        free == { sid \in ProviderSessionIds : SessionById(sid) = {} }
    IN
    /\ r.kind = "checkout" /\ r.pc = "ck_provider"
    /\ \E outcome \in (IF free = {} THEN ProviderOutcomes \ {"session"}
                        ELSE ProviderOutcomes) :
         LET sid == IF outcome = "session" THEN CHOOSE x \in free : TRUE ELSE "" IN
         /\ checkout' = [checkout EXCEPT !.provider =
                            Append(@, [request |-> started, orderId |-> r.orderId,
                                       outcome |-> outcome, sessionId |-> sid])]
         /\ SetReq(p, AfterProvider(Wrote(r, "provider"), outcome, sid))
    /\ UNCHANGED <<order, orderPayment, adyenSession, cartItem,
                   refundCalls, started, faults, race, authorised, call>>

\* storeAdyenSession(userId, orderId, paymentSession), then the redirect to
\* the checkout page
checkout_store(p) ==
    LET r == reqs[p] IN
    /\ r.kind = "checkout" /\ r.pc = "ck_store"
    /\ \E ok \in CallOutcomes :
         /\ Raise(ok)
         /\ IF ok /\ SessionById(r.target) = {}
            THEN /\ adyenSession' = adyenSession \cup
                        { [sessionId |-> r.target, orderId |-> r.orderId,
                           userId |-> r.userId, createdAt |-> call.now,
                           expiresAt |-> call.now + SessionLifetime] }
                 /\ SetReq(p, Respond(Wrote(r, "adyenSession"), 302))
            ELSE /\ UNCHANGED adyenSession
                 /\ SetReq(p, Respond(Faulted(r), 500))
    /\ UNCHANGED <<order, orderPayment, cartItem, refundCalls, started, race,
                   authorised, call, checkout>>

InitCheckout ==
    /\ reqs = [p \in Procs |-> IdleReq]
    /\ refundCalls = <<>>
    /\ started = 0
    /\ faults = 0
    /\ call = NoCall
    /\ checkout = NoCheckout
    /\ race = FALSE
    /\ cartItem \in {Carts0, Carts2}
    /\ order = Orders0 /\ orderPayment = {}
    /\ adyenSession \in {{}, Sessions0}
    /\ authorised = [id \in OrderIds |-> ""]

NextCheckout ==
    \E p \in Procs :
        \/ StartCheckout(p)
        \/ checkout_cart(p)
        \/ checkout_request(p)
        \/ checkout_provider(p)
        \/ checkout_store(p)

SpecCheckout == InitCheckout /\ [][NextCheckout]_vars

----------------------------------------------------------------------------
Next ==
    \E p \in Procs :
        \/ StartWebhook(p)
        \/ createOrderPayment_find(p)
        \/ createOrderPayment_write(p)
        \/ handleCancelOrRefund_find(p)
        \/ handleCancelOrRefund_order(p)
        \/ handleCancelOrRefund_payment(p)
        \/ handlePaymentSuccess_find(p)
        \/ handlePaymentSuccess_update(p)
        \/ handlePaymentFailure_find(p)
        \/ handlePaymentFailure_update(p)
        \/ cleanupSessionsForOrder_find(p)
        \/ cleanupSessionsForOrder_delete(p)
        \/ StartLegacyWebhook(p)
        \/ legacyHandler_find(p)
        \/ legacyHandler_update(p)
        \/ StartRefund(p)
        \/ refund_find(p)
        \/ refund_call(p)
        \/ refund_update(p)
        \/ StartFinalize(p)
        \/ finalize_cart(p)
        \/ finalize_create(p)
        \/ finalize_clear(p)

Spec == Init /\ [][Next]_vars

SpecRace == InitRace /\ [][Next]_vars

----------------------------------------------------------------------------
(* Properties *)

Webhooks == {"webhook", "legacyWebhook"}

\* A request of the verifying route that passed the intake: the body holds
\* an item, the key is set and validateHMAC returned true.
Verified(r) ==
    r.kind = "webhook" /\ r.body = "batch" /\ r.hmacKey /\ r.hmac = "valid"

Answered(r) == r.pc = "done" /\ r.kind # "idle"

\* C1: a webhook POST whose first item fails the authenticity check is
\* answered 401 and writes no order, ledger or session row, on every webhook
\* route of the application and whatever the items of the batch are.
C1_InvalidSignatureRejected ==
    \A p \in Procs :
        LET r == reqs[p] IN
        (r.kind \in Webhooks /\ r.body = "batch" /\ r.hmacKey /\ r.hmac = "invalid")
            => /\ r.wrote = {}
               /\ r.pc = "done" => r.resp = 401

\* The status table of the order state machine
AllowedNext(status) ==
    CASE status = PENDING -> {SUCCESSFUL, FAILED, CANCELLED}
      [] status = SUCCESSFUL -> {REFUND_IN_PROGRESS, REFUNDED, CANCELLED}
      [] status = REFUND_IN_PROGRESS -> {REFUNDED, CANCELLED}
      [] OTHER -> {}

\* C2: every change of an order's status follows the status table; FAILED,
\* REFUNDED and CANCELLED are never left.
C2_StatusTable ==
    [][ \A o \in order : \A n \in order' :
            (n.id = o.id /\ n.status # o.status) => n.status \in AllowedNext(o.status)
      ]_vars

\* The other workers are idle or have answered a request with the same body
Alone(p) ==
    \A q \in Procs \ {p} :
        \/ reqs[q] = IdleReq
        \/ reqs[q].pc = "done" /\ reqs[q].kind = reqs[p].kind
             /\ reqs[q].items = reqs[p].items /\ ~reqs[q].threw

IsEvent(r, code, success) ==
    /\ r.items # <<>>
    /\ Item(r).eventCode = code
    /\ Item(r).success = success

\* C3: once the same authenticated AUTHORISATION/true notification has been
\* processed for an existing order, once, twice in a row or by two
\* overlapping requests, the order is SUCCESSFUL and its only ledger row holds
\* the notification's event code, success flag, reference and amount.
C3_AuthorisationIdempotent ==
    \A p \in Procs :
        LET r == reqs[p] IN
        (/\ Verified(r) /\ Answered(r) /\ ~r.threw
         /\ IsEvent(r, AUTHORISATION, "true")
         /\ OrderById(Item(r).merchantReference) # {}
         /\ Alone(p))
            => /\ \A o \in OrderById(Item(r).merchantReference) : o.status = SUCCESSFUL
               /\ PaymentByOrderId(Item(r).merchantReference) =
                    { [orderId |-> Item(r).merchantReference,
                       pspReference |-> Item(r).pspReference,
                       eventCode |-> AUTHORISATION, success |-> TRUE,
                       amount |-> 54] }

\* C3 witness: two overlapping requests have both processed one notification
C3_Witness ==
    /\ \A p \in Procs :
          Verified(reqs[p]) /\ Answered(reqs[p]) /\ ~reqs[p].threw
          /\ IsEvent(reqs[p], AUTHORISATION, "true") /\ reqs[p].pre = PENDING
    /\ reqs["w1"].items = reqs["w2"].items
    /\ \E o \in order : o.id = Item(reqs["w1"]).merchantReference /\ o.status = SUCCESSFUL

\* C4: an authenticated AUTHORISATION/false notification naming no existing
\* order creates, changes and deletes nothing and is answered 202.
C4_FailureForUnknownOrder ==
    \A p \in Procs :
        LET r == reqs[p] IN
        (/\ Verified(r) /\ Answered(r)
         /\ IsEvent(r, AUTHORISATION, "false")
         /\ OrderById(Item(r).merchantReference) = {})
            => /\ r.resp = 202
               /\ r.wrote = {}
               /\ PaymentByOrderId(Item(r).merchantReference) = {}

C4_Witness ==
    \E p \in Procs :
        /\ Verified(reqs[p]) /\ Answered(reqs[p]) /\ ~reqs[p].threw
        /\ IsEvent(reqs[p], AUTHORISATION, "false")
        /\ OrderById(Item(reqs[p]).merchantReference) = {}
        /\ reqs[p].resp = 202

\* C5: every POST to the webhook endpoint is answered 400, 401 or 202.
C5_ResponseCodes ==
    \A p \in Procs :
        (reqs[p].kind = "webhook" /\ Answered(reqs[p]))
            => reqs[p].resp \in {400, 401, 202}

\* C6: a webhook POST whose body cannot be decoded or holds no notification
\* item is answered 400 and writes nothing.
C6_MalformedPayload ==
    \A p \in Procs :
        (/\ reqs[p].kind = "webhook" /\ Answered(reqs[p])
         /\ reqs[p].body \in {"invalidJson", "noItems", "emptyItems"})
            => reqs[p].resp = 400 /\ reqs[p].wrote = {}

\* C7: once the first item has passed the authenticity check the endpoint
\* answers 202, also when a storage call of the processing raised.
C7_AcknowledgedAfterVerification ==
    \A p \in Procs :
        (Verified(reqs[p]) /\ Answered(reqs[p])) => reqs[p].resp = 202

C7_Witness ==
    \E p \in Procs :
        /\ Verified(reqs[p]) /\ Answered(reqs[p])
        /\ reqs[p].threw /\ reqs[p].resp = 202

\* C8: an authenticated AUTHORISATION/true notification for an existing order
\* leaves the order SUCCESSFUL and, the cleanup having succeeded, no session
\* of that order in the store; the status is written before the purge.
C8_SuccessThenPurge ==
    \A p \in Procs :
        LET r == reqs[p] IN
        (Verified(r) /\ IsEvent(r, AUTHORISATION, "true") /\ Alone(p))
            => /\ (Answered(r) /\ ~r.threw /\ OrderById(Item(r).merchantReference) # {})
                    => /\ \A o \in OrderById(Item(r).merchantReference) :
                              o.status = SUCCESSFUL
                       /\ SessionsOfOrder(Item(r).merchantReference) = {}
               /\ (r.pc \in {"cleanup_find", "cleanup_delete"} \/ "adyenSession" \in r.wrote)
                    => /\ "order" \in r.wrote
                       /\ \A o \in OrderById(Item(r).merchantReference) :
                              o.status = SUCCESSFUL

\* C8 witness: the request has written the status and then purged sessions
C8_Witness ==
    \E p \in Procs :
        /\ Verified(reqs[p]) /\ Answered(reqs[p]) /\ ~reqs[p].threw
        /\ IsEvent(reqs[p], AUTHORISATION, "true")
        /\ reqs[p].wrote = {"orderPayment", "order", "adyenSession"}
        /\ SessionsOfOrder(Item(reqs[p]).merchantReference) = {}

\* C9: an authenticated CANCEL_OR_REFUND/true notification for an order that
\* was SUCCESSFUL sets it to REFUNDED when the action is 'refund' or absent
\* and to CANCELLED when it is a cancel, and leaves one ledger row for the
\* order, now holding the refund event.
C9_RefundWebhook ==
    \A p \in Procs :
        LET r == reqs[p] IN
        (/\ Verified(r) /\ Answered(r) /\ ~r.threw
         /\ IsEvent(r, CANCEL_OR_REFUND, "true")
         /\ \E o \in OrderById(Item(r).merchantReference) : TRUE
         /\ Alone(p))
            => /\ r.pre # ""
               /\ \A o \in OrderById(Item(r).merchantReference) :
                      o.status = IF Item(r).action \in {"", "refund"} THEN REFUNDED
                                 ELSE CANCELLED
               /\ Cardinality(PaymentByOrderId(Item(r).merchantReference)) = 1
               /\ \A x \in PaymentByOrderId(Item(r).merchantReference) :
                      /\ x.eventCode = CANCEL_OR_REFUND /\ x.success
                      /\ x.pspReference = Item(r).pspReference

\* C9 witness: the order was SUCCESSFUL with its ledger row when the refund
\* notification found it, and is REFUNDED now
C9_Witness ==
    \E p \in Procs :
        /\ Verified(reqs[p]) /\ Answered(reqs[p]) /\ ~reqs[p].threw
        /\ IsEvent(reqs[p], CANCEL_OR_REFUND, "true")
        /\ reqs[p].pre = SUCCESSFUL
        /\ reqs[p].wrote = {"orderPayment", "order"}
        /\ \E o \in OrderById(Item(reqs[p]).merchantReference) : o.status = REFUNDED

\* The caller owns the order, it is SUCCESSFUL and it has a ledger row with a
\* provider reference
Refundable(userId, orderId) ==
    /\ \E o \in order : o.id = orderId /\ o.userId = userId /\ o.status = SUCCESSFUL
    /\ \E x \in orderPayment : x.orderId = orderId /\ x.pspReference # ""

\* C10: a refund initiation calls the provider and writes the order only when
\* the caller owns the order, it is SUCCESSFUL and it has a ledger row; every
\* other request is answered 4xx, calls nothing and writes nothing.
C10_RefundGuard ==
    \A p \in Procs :
        LET r == reqs[p] IN
        r.kind = "refund" =>
            /\ r.pc = "rf_call" => Refundable(r.userId, r.orderId)
            /\ r.wrote # {} =>
                 /\ r.pre = SUCCESSFUL
                 /\ \E o \in order : o.id = r.orderId /\ o.userId = r.userId
                 /\ PaymentByOrderId(r.orderId) = {r.payment}
            /\ (Answered(r) /\ ~r.threw /\ r.resp # 200) =>
                 /\ r.resp \in {400, 404}
                 /\ r.wrote = {}
                 /\ ~Refundable(r.userId, r.orderId)
            /\ (Answered(r) /\ r.wrote = {} /\ ~Refundable(r.userId, r.orderId)
                  /\ ~r.threw) => r.resp \in {400, 404}

\* C10 witness: a refund asked for a PENDING order by its owner was answered 400
C10_Witness ==
    \E p \in Procs :
        /\ reqs[p].kind = "refund" /\ Answered(reqs[p])
        /\ reqs[p].pre = PENDING /\ reqs[p].resp = 400 /\ reqs[p].wrote = {}

\* C11: every refund call received by the provider carries as idempotency
\* key the pspReference of the order's original authorised payment, so that
\* all refund calls for one order carry one key.
C11_RefundIdempotencyKey ==
    \A i \in DOMAIN refundCalls :
        /\ authorised[refundCalls[i].orderId] # ""
             => refundCalls[i].idempotencyKey = authorised[refundCalls[i].orderId]
        /\ \A j \in DOMAIN refundCalls :
               refundCalls[j].orderId = refundCalls[i].orderId
                   => refundCalls[j].idempotencyKey = refundCalls[i].idempotencyKey

C13_KeepOnlyOne ==
    call.pc = "done" =>
        /\ call.result \in {call.keep, ""}
        /\ { x \in adyenSession : x.orderId # call.orderId }
             = { x \in call.before : x.orderId # call.orderId }
        /\ adyenSession \subseteq call.before

\* C13 witness: the order had two sessions, one was kept and is returned
C13_Witness ==
    /\ call.pc = "done" /\ call.keep # "" /\ call.result = call.keep
    /\ Cardinality({ x \in call.before : x.orderId = call.orderId }) = 2
    /\ Cardinality(SessionsOfOrder(call.orderId)) = 1

\* Rounding to two decimals, of an amount held in 1/100 of a cent
Round2(x) == ((x + 50) \div 100) * 100

\* C14: every session request built for a cart carries subtotal = sum of
\* price x quantity, tax = subtotal x 0.08 rounded to two decimals, total =
\* subtotal + tax and amount = round(total x 100); the order priced from the
\* same cart stores the same three values and round(order.total x 100) is the
\* amount sent to the provider.
C14_Amounts ==
    \A i \in DOMAIN checkout.sessions :
        LET s == checkout.sessions[i].request IN
        /\ s.subtotal = calculateCartTotal(checkout.cartItems)
        /\ s.tax = Round2(Tax(s.subtotal))
        /\ s.total = s.subtotal + s.tax
        /\ s.amount = (s.total + 50) \div 100
        /\ \A j \in DOMAIN checkout.order :
              LET o == checkout.order[j] IN
              /\ o.subtotal = s.subtotal /\ o.tax = s.tax /\ o.total = s.total
              /\ (o.total + 50) \div 100 = s.amount

\* C15: the session requests of two distinct checkout attempts carry
\* different idempotency keys, the requests of one attempt sent again carry
\* the same key, and no key is longer than 64 characters.
C15_IdempotencyKeys ==
    \A i \in DOMAIN checkout.sessions :
        LET s == checkout.sessions[i] IN
        /\ s.request.idempotencyKey.length <= 64
        /\ \A j \in DOMAIN checkout.sessions :
              LET t == checkout.sessions[j] IN
              i < j =>
                 IF s.attempt = t.attempt
                 THEN s.request.idempotencyKey = t.request.idempotencyKey
                 ELSE s.request.idempotencyKey # t.request.idempotencyKey

\* C16: when validateHMAC raises on the first item instead of returning a
\* boolean, the request is answered like one whose signature is invalid: 401
\* and no order, ledger or session row written.
C16_UnverifiableIsInvalid ==
    \A p \in Procs :
        LET r == reqs[p] IN
        (r.kind = "webhook" /\ r.body = "batch" /\ r.hmacKey /\ r.hmac = "throws")
            => /\ r.wrote = {}
               /\ Answered(r) => r.resp = 401

\* The (event code, success) pairs the reconciler recognizes
Recognized(item) ==
    item.eventCode \in {AUTHORISATION, CANCEL_OR_REFUND}
        /\ item.success \in {"true", "false"}

\* C17: after an authenticated batch was processed, the ledger row of every
\* existing order named by a recognized item holds the last such item of the
\* batch, whatever its position, and a batch without a recognized item has
\* written no ledger row.
C17_RecognizedItemsUpserted ==
    \A p \in Procs :
        LET r == reqs[p] IN
        (Verified(r) /\ Answered(r) /\ ~r.threw /\ Alone(p)) =>
            /\ \A i \in DOMAIN r.items :
                  (/\ Recognized(r.items[i])
                   /\ OrderById(r.items[i].merchantReference) # {}
                   /\ \A j \in DOMAIN r.items :
                         (j > i /\ Recognized(r.items[j]))
                             => r.items[j].merchantReference
                                    # r.items[i].merchantReference)
                      => PaymentByOrderId(r.items[i].merchantReference)
                             = {PaymentRow(r.items[i])}
            /\ (\A i \in DOMAIN r.items : ~Recognized(r.items[i]))
                  => "orderPayment" \notin r.wrote

\* C18: no step leaves two ledger rows for one order, and when a webhook
\* request writes the ledger for an existing order after every other request
\* has been answered, so that it is the request processed last, the row of
\* the order holds its notification.
C18_LedgerHoldsLastEvent ==
    [][ /\ \A id \in OrderIds : Cardinality(PaymentByOrderId(id)') <= 1
        /\ \A p \in Procs :
              LET r == reqs[p] IN
              (/\ Verified(r) /\ r.pc = "cop_write"
               /\ \A q \in Procs \ {p} : reqs[q].pc = "done"
               /\ OrderById(Item(r).merchantReference) # {}
               /\ reqs'[p].pc # "cop_write" /\ ~reqs'[p].threw)
                  => PaymentByOrderId(Item(r).merchantReference)'
                         = {PaymentRow(Item(r))}
      ]_vars

\* C19: no step of a request processing an authenticated
\* CANCEL_OR_REFUND/false notification changes the order table: every order
\* keeps the status it had.
C19_FailedRefundKeepsStatus ==
    [][ \A p \in Procs :
           (/\ Verified(reqs[p]) /\ IsEvent(reqs[p], CANCEL_OR_REFUND, "false")
            /\ reqs[p].pc # "done" /\ reqs'[p] # reqs[p])
               => order' = order
      ]_vars

\* C19 witness: the notification of a failed refund was processed for an
\* order that is SUCCESSFUL, and stored in the ledger
C19_Witness ==
    \E p \in Procs :
        /\ Verified(reqs[p]) /\ Answered(reqs[p]) /\ ~reqs[p].threw
        /\ IsEvent(reqs[p], CANCEL_OR_REFUND, "false")
        /\ reqs[p].resp = 202 /\ reqs[p].wrote = {"orderPayment"}
        /\ \E o \in OrderById(Item(reqs[p]).merchantReference) : o.status = SUCCESSFUL

\* C20: a raise of cleanupSessionsForOrder does not fail its caller: the
\* finalization that created the order and cleared the cart answers 200 and
\* leaves both done; the AUTHORISATION/true processing that wrote SUCCESSFUL
\* is answered 202 and the order stays SUCCESSFUL.
C20_CleanupIsBestEffort ==
    \A p \in Procs :
        LET r == reqs[p] IN
        (Answered(r) /\ r.threw /\ Alone(p)) =>
            /\ (r.kind = "finalize" /\ {"order", "cartItem"} \subseteq r.wrote)
                  => /\ r.resp = 200
                     /\ \E o \in OrderById(r.orderId) :
                           o.status = PENDING /\ o.userId = r.userId
                     /\ CartOf(r.userId) = {}
            /\ (Verified(r) /\ IsEvent(r, AUTHORISATION, "true") /\ "order" \in r.wrote)
                  => /\ r.resp = 202
                     /\ \A o \in OrderById(Item(r).merchantReference) :
                           o.status = SUCCESSFUL

\* C20 witness: the cleanup raised after the finalization had created the
\* order and cleared the cart
C20_Witness ==
    \E p \in Procs :
        /\ reqs[p].kind = "finalize" /\ Answered(reqs[p]) /\ reqs[p].threw
        /\ reqs[p].wrote = {"order", "cartItem"} /\ reqs[p].resp = 200
        /\ SessionsOfOrder(reqs[p].orderId) # {}

\* C21: getAdyenSessionByOrderId returns, of the stored sessions matching
\* (orderId, userId), the most recently created one.
C21_MostRecentSession ==
    [][ (call.pc = "get" /\ call'.pc = "done") =>
            LET found == SessionsByOrderAndUser(call'.orderId, call'.userId) IN
            found # {} =>
                \E x \in found :
                    /\ x.sessionId = call'.result
                    /\ \A y \in found : y.createdAt <= x.createdAt
      ]_vars

\* A step of an authenticated webhook request naming an order that does not
\* exist writes no table, and the request is answered 202
UnknownOrderWebhookIsNoOp ==
    \A p \in Procs :
        (/\ Verified(reqs[p]) /\ reqs[p].pc # "done" /\ reqs'[p] # reqs[p]
         /\ OrderById(Item(reqs[p]).merchantReference) = {})
            => /\ UNCHANGED <<order, orderPayment, adyenSession, cartItem>>
               /\ reqs'[p].pc = "done" => reqs'[p].resp = 202

\* The webhook part of C22 on its own
UnknownOrderWebhook == [][UnknownOrderWebhookIsNoOp]_vars

\* C22: deleteAdyenSession for a session id that is not stored,
\* cleanupSessionsForOrder for an order without sessions and a webhook naming
\* an unknown order raise nothing to their caller and leave every row as it
\* was.
C22_AbsentIsNoOp ==
    [][ /\ (started' # started /\ call'.last.op = "deleteBySession"
              /\ SessionById(call'.last.sessionId) = {})
           => (~call'.last.raised /\ adyenSession' = adyenSession)
        /\ (call.pc = "find" /\ call'.pc # "find"
              /\ SessionsOfOrder(call.orderId) = {})
           => (call'.pc = "get" /\ adyenSession' = adyenSession)
        /\ UnknownOrderWebhookIsNoOp
      ]_vars

\* C23: once cleanupSessionsForOrder(orderId, keep) has returned and no
\* session was stored since it was called, whatever calls overlapped before,
\* at most one session of the order is stored, and it is the kept one.
C23_AtMostOneLiveSession ==
    (call.pc \in {"get", "done"} /\ ~call.puts) =>
        /\ Cardinality(SessionsOfOrder(call.orderId)) <= 1
        /\ \A x \in SessionsOfOrder(call.orderId) : x.sessionId = call.keep

\* C23 witness: a session stored by an earlier put and an older one were
\* there when the cleanup was called; the kept one alone is left
C23_Witness ==
    /\ call.pc \in {"get", "done"} /\ ~call.puts /\ call.keep # ""
    /\ \E x \in call.before : x.orderId = call.orderId /\ x.sessionId \in NewSessionIds
    /\ Cardinality({ x \in call.before : x.orderId = call.orderId }) >= 2
    /\ Cardinality(SessionsOfOrder(call.orderId)) = 1

\* C26: the checkout loader presents a session only when it is stored for
\* the (order, user) pair of the request and its expiresAt has not passed.
C26_OnlyLiveSessionPresented ==
    [][ (started' # started /\ call'.last.op = "loader" /\ call'.last.result # "")
            => \E x \in adyenSession :
                  /\ x.sessionId = call'.last.result
                  /\ x.orderId = call'.last.orderId
                  /\ x.userId = call'.last.userId
                  /\ x.expiresAt >= call.now
      ]_vars

\* C26 witness: a session is presented while an expired session of the same
\* order and user is still stored
C26_Witness ==
    /\ call.last.op = "loader" /\ call.last.result # ""
    /\ \E x \in adyenSession :
          /\ x.orderId = call.last.orderId /\ x.userId = call.last.userId
          /\ x.expiresAt < call.now /\ x.sessionId # call.last.result
    /\ \E x \in adyenSession :
          x.sessionId = call.last.result /\ x.expiresAt >= call.now

\* The session creations the provider received from the latest request
ProviderCallsOfRequest ==
    { i \in DOMAIN checkout.provider : checkout.provider[i].request = started }

\* C24: a checkout intent calls the provider's session creation at most
\* once; when the call is rejected or answers without sessionData the intent
\* ends with the 500 response and has stored no session; a session row is
\* stored only after a response that carries sessionData.
C24_NoRetryNoOrphanSession ==
    \A p \in Procs :
        LET r == reqs[p] IN
        r.kind = "checkout" =>
            /\ Cardinality(ProviderCallsOfRequest) <= 1
            /\ \A i \in ProviderCallsOfRequest :
                  checkout.provider[i].outcome # "session"
                      => /\ Answered(r) /\ r.resp = 500
                         /\ "adyenSession" \notin r.wrote
            /\ "adyenSession" \in r.wrote
                  => \E i \in ProviderCallsOfRequest :
                        /\ checkout.provider[i].outcome = "session"
                        /\ \E x \in SessionById(checkout.provider[i].sessionId) :
                              x.orderId = r.orderId /\ x.userId = r.userId
            /\ (Answered(r) /\ r.resp = 302) => "adyenSession" \in r.wrote

\* C24 witness: the provider rejected the session creation, the intent was
\* answered 500 after this one call
C24_Witness ==
    \E p \in Procs :
        /\ reqs[p].kind = "checkout" /\ Answered(reqs[p]) /\ reqs[p].resp = 500
        /\ \E i \in ProviderCallsOfRequest :
              checkout.provider[i].outcome = "failed"
        /\ reqs[p].wrote = {"provider"}

\* C25: once an authenticated webhook request that moved its order to
\* FAILED, REFUNDED or CANCELLED has been answered, the store holds no
\* session with that order id.
C25_TerminalOutcomeDeletesSessions ==
    \A p \in Procs :
        LET r == reqs[p] IN
        (/\ Verified(r) /\ Answered(r) /\ ~r.threw /\ "order" \in r.wrote
         /\ \E o \in OrderById(Item(r).merchantReference) :
               o.status \in {FAILED, REFUNDED, CANCELLED})
            => SessionsOfOrder(Item(r).merchantReference) = {}

\* C27: when an authenticated AUTHORISATION/true notification for an order
\* and a finalization of that order answered 200 have both completed, in
\* either order, the order is SUCCESSFUL.
C27_WebhookBeforeOrderNotLost ==
    \A p, q \in Procs :
        LET w == reqs[p]
            f == reqs[q]
        IN
        (/\ Verified(w) /\ Answered(w) /\ ~w.threw
         /\ IsEvent(w, AUTHORISATION, "true") /\ Len(w.items) = 1
         /\ f.kind = "finalize" /\ Answered(f) /\ ~f.threw /\ f.resp = 200
         /\ f.orderId = Item(w).merchantReference)
            => \E o \in OrderById(f.orderId) : o.status = SUCCESSFUL

\* C28: when a CANCEL_OR_REFUND/true notification for an order and a refund
\* initiation of that order that passed its status check have both
\* completed, the order is REFUNDED or CANCELLED.
C28_RefundInProgressNeverOverwrites ==
    \A p, q \in Procs :
        LET w == reqs[p]
            f == reqs[q]
        IN
        (/\ Verified(w) /\ Answered(w) /\ ~w.threw /\ Len(w.items) = 1
         /\ IsEvent(w, CANCEL_OR_REFUND, "true") /\ "order" \in w.wrote
         /\ f.kind = "refund" /\ Answered(f) /\ ~f.threw /\ f.resp = 200
         /\ f.orderId = Item(w).merchantReference)
            => \E o \in OrderById(f.orderId) : o.status \in {REFUNDED, CANCELLED}

\* A step of a finalization request that has not created the order, taken
\* while an order with its id exists
StepOnExistingOrder(p) ==
    /\ reqs[p].kind = "finalize" /\ reqs[p].pc # "done" /\ reqs'[p] # reqs[p]
    /\ "order" \notin reqs[p].wrote
    /\ OrderById(reqs[p].orderId) # {}

\* C29 as stated: a finalization for an order id that exists leaves the
\* order table and the cart as they are and ends with the 500 response.
C29_ExistingOrderAnswered500 ==
    [][ \A p \in Procs :
           StepOnExistingOrder(p)
               => /\ order' = order /\ cartItem' = cartItem
                  /\ reqs'[p].pc = "done" => reqs'[p].resp = 500
      ]_vars

\* C29: a finalization for an order id that exists leaves the order table
\* and the cart as they are and ends with a failure response: 400 when the
\* caller's cart is empty, 500 otherwise; it never turns the order PENDING.
C29_ExistingOrderUntouched ==
    [][ \A p \in Procs :
           StepOnExistingOrder(p)
               => /\ order' = order /\ cartItem' = cartItem
                  /\ reqs'[p].pc = "done"
                       => reqs'[p].resp =
                            IF /\ reqs[p].pc = "fz_cart" /\ ~reqs'[p].threw
                               /\ CartOf(reqs[p].userId) = {}
                            THEN 400 ELSE 500
      ]_vars

\* C29 witness: a finalization naming a SUCCESSFUL order was refused by the
\* order table; the order is still SUCCESSFUL and the cart still filled
C29_Witness ==
    \E p \in Procs :
        /\ reqs[p].kind = "finalize" /\ Answered(reqs[p]) /\ ~reqs[p].threw
        /\ reqs[p].resp = 500 /\ reqs[p].wrote = {}
        /\ \E o \in OrderById(reqs[p].orderId) : o.status = SUCCESSFUL
        /\ CartOf(reqs[p].userId) # {}

\* C30: every order that is SUCCESSFUL or REFUND IN PROGRESS has a ledger
\* row holding a provider reference.
C30_PaidOrderHasLedgerRow ==
    \A o \in order :
        o.status \in {SUCCESSFUL, REFUND_IN_PROGRESS}
            => \E x \in PaymentByOrderId(o.id) : x.pspReference # ""

====
